---- MODULE Spec2Model ----
(***************************************************************************)
(* extpkg/packager: key generation (keygen, keygenSync), the pack pipeline *)
(* (pack, createZip) of src/packager.ts and the command-line handler's     *)
(* default output name (getOutFile).                                       *)
(*                                                                         *)
(* Files are byte sequences, a byte is 0..255.  The node crypto library is *)
(* abstracted by deterministic functions of the key (PemEncode, PemDecode, *)
(* PublicKeyDer, Sign) that produce byte sequences of realistic length: a  *)
(* 2048-bit RSA key has a 294-byte SPKI encoding and 256-byte signatures,  *)
(* so both length fields of a container need their second byte.           *)
(***************************************************************************)
EXTENDS Integers, Sequences, FiniteSets, TLC

\* ------------------------------------------------------------------ bounds

\* Distinct key pairs crypto.generateKeyPair may return.
NumKeys == 2

\* Longest source file, and longest directory content, that is packed.
MaxPayloadLen == 2

\* Longest source path given on the command line.
MaxPathLen == 5

\* ------------------------------------------------------- program constants

\* modulusLength of generateKeyPair / generateKeyPairSync.
ModulusLength == 2048

\* Offset of the public-key section: magic, version and the two length fields.
HeaderLength == 16

Procs == {1, 2}

KeyPath == "k.pem"
SrcPath == "src"
OutPath == "out.ext"
Paths == {KeyPath, SrcPath, OutPath}

\* ------------------------------------------------------------- byte buffers

\* Buffer.alloc(n): n zero bytes.
BufferAlloc(n) == [i \in 1 .. n |-> 0]

\* src.copy(buf, off): the bytes of src that fit are written at offset off.
BufferCopy(src, buf, off) ==
  [i \in 1 .. Len(buf) |->
     IF i > off /\ i <= off + Len(src) THEN src[i - off] ELSE buf[i]]

\* Most significant byte first (writeUint32BE).
Uint32BE(v) ==
  << (v \div 16777216) % 256, (v \div 65536) % 256, (v \div 256) % 256, v % 256 >>

\* The four bytes writeUint32LE stores for v, least significant first.
Uint32LE(v) ==
  << v % 256, (v \div 256) % 256, (v \div 65536) % 256, (v \div 16777216) % 256 >>

\* buf.writeUint32LE(v, off)
WriteUint32LE(buf, v, off) == BufferCopy(Uint32LE(v), buf, off)

\* s[a+1 .. b], the bytes at offsets a .. b-1.
Slice(s, a, b) == [i \in 1 .. (b - a) |-> s[a + i]]

RECURSIVE SeqsUpTo(_, _)
SeqsUpTo(S, n) ==
  IF n = 0 THEN {<< >>}
  ELSE LET shorter == SeqsUpTo(S, n - 1)
       IN  shorter \cup {Append(s, x) : s \in shorter, x \in S}

\* ------------------------------------------------------------ key material

NoKey == [kind |-> "none", bits |-> 0, id |-> 0]

\* The key pairs keygen can write: RSA, ModulusLength bits.
GeneratedKeys == {[kind |-> "rsa", bits |-> ModulusLength, id |-> i] : i \in 1 .. NumKeys}

\* Key files made by other tools: a short RSA key, and a key type that loads
\* but that crypto.createSign('RSA-SHA1') cannot sign with.
ForeignRsaKey == [kind |-> "rsa", bits |-> 512, id |-> 0]
ForeignEdKey == [kind |-> "ed25519", bits |-> 256, id |-> 0]
AllKeys == GeneratedKeys \cup {ForeignRsaKey, ForeignEdKey}

KindCode(kind) == IF kind = "rsa" THEN 1 ELSE 2

\* The PKCS#8 PEM text of a private key (it starts with '-', byte 45).
PemEncode(k) == << 45, KindCode(k.kind), k.bits \div 256, k.bits % 256, k.id >>

\* crypto.createPrivateKey(pem): the key, or NoKey when the bytes do not parse.
PemDecode(data) ==
  IF /\ Len(data) = 5
     /\ data[1] = 45
     /\ data[2] \in {1, 2}
  THEN [kind |-> IF data[2] = 1 THEN "rsa" ELSE "ed25519",
        bits |-> data[3] * 256 + data[4],
        id   |-> data[5]]
  ELSE NoKey

\* publicKey.export({format: 'der', type: 'spki'}) of the key derived from k.
PublicKeyDer(k) ==
  LET n == IF k.kind = "rsa" THEN k.bits \div 8 + 38 ELSE 44
  IN  [i \in 1 .. n |-> IF i = 1 THEN 48 ELSE (k.id * 37 + k.bits + i * 3) % 256]

\* The SHA-1 digest of the signed bytes, abstracted to a number.
RECURSIVE Digest(_)
Digest(data) ==
  IF data = << >> THEN 17
  ELSE (Digest(Tail(data)) * 33 + Head(data) + 1) % 65521

\* Whether sign.sign(privateKey) succeeds for createSign('RSA-SHA1').
CanSign(k) == k.kind = "rsa"

\* sign.update(data); sign.end(); sign.sign(k)
Sign(k, data) ==
  [i \in 1 .. (k.bits \div 8) |-> (Digest(data) + k.id * 101 + k.bits + i * 7) % 256]

\* ---------------------------------------------------------------- container

Magic == << 69, 88, 84, 56 >>
Version == << 2, 0, 0, 0 >>

\* The signature copied at the offset of the public key: the sections overlap.
AssembleOverlapping(publicKeyDer, signature, zipData) ==
  LET publicKeyLength == Len(publicKeyDer)
      signatureLength == Len(signature)
      length == HeaderLength + publicKeyLength + signatureLength + Len(zipData)
      b0 == BufferAlloc(length)
      b1 == BufferCopy(Magic, b0, 0)
      b2 == BufferCopy(Version, b1, 4)
      b3 == WriteUint32LE(b2, publicKeyLength, 8)
      b4 == WriteUint32LE(b3, signatureLength, 12)
      b5 == BufferCopy(publicKeyDer, b4, HeaderLength)
      b6 == BufferCopy(signature, b5, HeaderLength)
  IN  BufferCopy(zipData, b6, HeaderLength + publicKeyLength + signatureLength)

\* Lines 145-156 of pack: the zero-filled buffer and the seven writes into it.
Assemble(publicKeyDer, signature, zipData) ==
  LET publicKeyLength == Len(publicKeyDer)
      signatureLength == Len(signature)
      length == HeaderLength + publicKeyLength + signatureLength + Len(zipData)
      b0 == BufferAlloc(length)
      b1 == BufferCopy(Magic, b0, 0)
      b2 == BufferCopy(Version, b1, 4)
      b3 == WriteUint32LE(b2, publicKeyLength, 8)
      b4 == WriteUint32LE(b3, signatureLength, 12)
      b5 == BufferCopy(publicKeyDer, b4, HeaderLength)
      b6 == BufferCopy(signature, b5, HeaderLength + publicKeyLength)
  IN  BufferCopy(zipData, b6, HeaderLength + publicKeyLength + signatureLength)

\* ---------------------------------------------------------------- the files

NoFile == [type |-> "none", data |-> << >>]
File(d) == [type |-> "file", data |-> d]
Dir(d) == [type |-> "dir", data |-> d]
Other == [type |-> "other", data |-> << >>]

\* fs.existsSync(path)
Exists(files, path) == files[path].type # "none"

\* The contents of source files, and of source directories.
PayloadByte == {7, 200}
Payloads == SeqsUpTo(PayloadByte, MaxPayloadLen)
DirContents == SeqsUpTo({7}, MaxPayloadLen)

\* The archive archiver writes for a directory: a zip of its content.
ZipOf(content) == << 80, 75 >> \o content \o << Len(content) >>

\* fs.promises.writeFile / fs.writeFileSync (flag 'w'): every way the call can
\* end.  It opens the path truncating it, writes the data and closes; it can
\* fail before the path is opened (nothing changes) or while writing (the file
\* is left holding a strict prefix of the data: here the empty one or all but
\* the last byte).
WriteCuts(data) == {n \in {0, Len(data) - 1} : n >= 0 /\ n < Len(data)}

WriteFile(files, path, data) ==
  IF files[path].type \in {"dir", "other"}
  THEN {[ok |-> FALSE, files |-> files]}
  ELSE {[ok |-> TRUE, files |-> [files EXCEPT ![path] = File(data)]],
        [ok |-> FALSE, files |-> files]}
       \cup {[ok |-> FALSE, files |-> [files EXCEPT ![path] = File(Slice(data, 0, n))]]
               : n \in WriteCuts(data)}

\* -------------------------------------------------------------------- state

VARIABLES
  fs,         \* path -> file object: the files the options name
  tmp,        \* per invocation: the scratch directory of mkdtemp and its extension.zip
  pc,         \* per invocation: the await it is suspended at, or idle / done / failed
  op,         \* per invocation: keygenSync, keygen or pack
  opts,       \* per invocation: the options object
  err,        \* per invocation: the error the call threw or rejected with
  key,        \* keygen: the generated key; pack: privateKey
  zip,        \* pack: the zip buffer (null until read)
  signature,  \* pack: the signature buffer
  caught,     \* pack: the error in flight while the finally block runs
  zipSt,      \* createZip: ok, the promise, the output stream, the archive
  hist,       \* history: the files when the call began, what was signed, scratch use
  cli         \* the command line of the pack command and the outFile it passes on

vars == << fs, tmp, pc, op, opts, err, key, zip, signature, caught, zipSt, hist, cli >>

NoBuf == [set |-> FALSE, data |-> << >>]
Buf(d) == [set |-> TRUE, data |-> d]

NoTmp == [exists |-> FALSE, file |-> NoFile]
NoZipSt == [ok |-> TRUE, promise |-> "none", output |-> "none", archive |-> "none"]
NoOpts == [privateKeyFile |-> "", sourcePath |-> "", outFile |-> "", force |-> "undefined"]
NoCli == [src |-> << >>, out |-> << >>, outGiven |-> FALSE, outFile |-> << >>]

Rest == {"idle", "done", "failed"}

ForceOption == {"undefined", "false", "true"}

\* const force = options.force === undefined ? false : options.force
Force(o) == IF o.force = "undefined" THEN FALSE ELSE o.force = "true"

KeygenOptions ==
  {[privateKeyFile |-> KeyPath, sourcePath |-> "", outFile |-> "", force |-> f]
     : f \in ForceOption}

PackOptions ==
  {[privateKeyFile |-> KeyPath, sourcePath |-> SrcPath, outFile |-> OutPath, force |-> f]
     : f \in ForceOption}

InitFiles ==
  {f \in [Paths -> {NoFile, Other} \cup {File(d) : d \in Payloads \cup {<< 9 >>}}
                     \cup {Dir(d) : d \in DirContents}
                     \cup {File(PemEncode(k)) : k \in {ForeignRsaKey, ForeignEdKey}}] :
     /\ f[KeyPath] \in {NoFile, File(<< 9 >>), File(PemEncode(ForeignRsaKey)),
                        File(PemEncode(ForeignEdKey))}
     /\ f[SrcPath] \in {NoFile, Other} \cup {File(d) : d \in Payloads}
                         \cup {Dir(d) : d \in DirContents}
     /\ f[OutPath] \in {NoFile, File(<< 9 >>)}}

NoHist == [fs0 |-> [q \in Paths |-> NoFile], signed |-> NoBuf, tmpCreated |-> FALSE]

InitProcs ==
  /\ tmp = [p \in Procs |-> NoTmp]
  /\ pc = [p \in Procs |-> "idle"]
  /\ op = [p \in Procs |-> "none"]
  /\ opts = [p \in Procs |-> NoOpts]
  /\ err = [p \in Procs |-> ""]
  /\ key = [p \in Procs |-> NoKey]
  /\ zip = [p \in Procs |-> NoBuf]
  /\ signature = [p \in Procs |-> << >>]
  /\ caught = [p \in Procs |-> ""]
  /\ zipSt = [p \in Procs |-> NoZipSt]
  /\ hist = [p \in Procs |-> NoHist]

Init ==
  /\ fs \in InitFiles
  /\ InitProcs
  /\ cli = NoCli

\* A call begins: its locals are fresh.
Begin(p, name, o) ==
  /\ op' = [op EXCEPT ![p] = name]
  /\ opts' = [opts EXCEPT ![p] = o]
  /\ hist' = [hist EXCEPT ![p] = [NoHist EXCEPT !.fs0 = fs]]
  /\ zip' = [zip EXCEPT ![p] = NoBuf]
  /\ signature' = [signature EXCEPT ![p] = << >>]
  /\ caught' = [caught EXCEPT ![p] = ""]
  /\ zipSt' = [zipSt EXCEPT ![p] = NoZipSt]

\* The call ends: it returns (e = "") or throws / rejects with e.
Finish(p, e) ==
  /\ pc' = [pc EXCEPT ![p] = IF e = "" THEN "done" ELSE "failed"]
  /\ err' = [err EXCEPT ![p] = e]

\* ------------------------------------------------------------------- keygen

\* The test of force inverted.
KeygenValidateInverted(files, o) ==
  IF Force(o) /\ Exists(files, o.privateKeyFile) THEN "AlreadyExists" ELSE ""

\* Lines 22-25 and 52-55: the validation of keygenSync and keygen.
KeygenValidate(files, o) ==
  IF ~Force(o) /\ Exists(files, o.privateKeyFile) THEN "AlreadyExists" ELSE ""

\* keygenSync: validation, generateKeyPairSync and writeFileSync in one step.
KeygenSync(p) ==
  \E o \in KeygenOptions :
    /\ Begin(p, "keygenSync", o)
    /\ UNCHANGED << tmp, cli >>
    /\ LET v == KeygenValidate(fs, o)
       IN  IF v # ""
           THEN /\ Finish(p, v)
                /\ key' = [key EXCEPT ![p] = NoKey]
                /\ UNCHANGED fs
           ELSE \/ /\ Finish(p, "KeyGenerationError")
                   /\ key' = [key EXCEPT ![p] = NoKey]
                   /\ UNCHANGED fs
                \/ \E k \in GeneratedKeys :
                     \E w \in WriteFile(fs, o.privateKeyFile, PemEncode(k)) :
                       /\ key' = [key EXCEPT ![p] = k]
                       /\ fs' = w.files
                       /\ Finish(p, IF w.ok THEN "" ELSE "WriteError")

\* keygen up to its first await: validation, then generateKeyPair is started.
KeygenBegin(p) ==
  \E o \in KeygenOptions :
    /\ Begin(p, "keygen", o)
    /\ key' = [key EXCEPT ![p] = NoKey]
    /\ UNCHANGED << fs, tmp, cli >>
    /\ LET v == KeygenValidate(fs, o)
       IN  IF v # ""
           THEN Finish(p, v)
           ELSE /\ pc' = [pc EXCEPT ![p] = "generate"]
                /\ err' = [err EXCEPT ![p] = ""]

\* The generateKeyPair callback: reject(err), or resolve(privateKey) and the
\* writeFile of line 79 is started.
KeygenGenerated(p) ==
  /\ pc[p] = "generate"
  /\ UNCHANGED << fs, tmp, op, opts, zip, signature, caught, zipSt, hist, cli >>
  /\ \/ /\ Finish(p, "KeyGenerationError")
        /\ UNCHANGED key
     \/ \E k \in GeneratedKeys :
          /\ key' = [key EXCEPT ![p] = k]
          /\ pc' = [pc EXCEPT ![p] = "kwrite"]
          /\ UNCHANGED err

\* await fs.promises.writeFile(options.privateKeyFile, key)
KeygenWrite(p) ==
  /\ pc[p] = "kwrite"
  /\ UNCHANGED << tmp, op, opts, key, zip, signature, caught, zipSt, hist, cli >>
  /\ \E w \in WriteFile(fs, opts[p].privateKeyFile, PemEncode(key[p])) :
       /\ fs' = w.files
       /\ Finish(p, IF w.ok THEN "" ELSE "WriteError")

\* --------------------------------------------------------------------- pack

\* The validation without its test of the source path.
PackValidateNoSource(files, o) ==
  IF ~Exists(files, o.privateKeyFile) THEN "KeyNotFound"
  ELSE IF ~Force(o) /\ Exists(files, o.outFile) THEN "AlreadyExists"
  ELSE ""

\* Lines 102-109: the validation of pack.
PackValidate(files, o) ==
  IF ~Exists(files, o.privateKeyFile) THEN "KeyNotFound"
  ELSE IF ~Exists(files, o.sourcePath) THEN "SourceNotFound"
  ELSE IF ~Force(o) /\ Exists(files, o.outFile) THEN "AlreadyExists"
  ELSE ""

\* Lines 112-114: readFileSync of the key file and createPrivateKey.
LoadKey(files, o) ==
  IF files[o.privateKeyFile].type # "file" THEN NoKey
  ELSE PemDecode(files[o.privateKeyFile].data)

\* pack up to its first await (line 122): validation, the key is loaded, the
\* public key is derived and exported, and stat is started.
PackBeginWith(p, o) ==
  /\ Begin(p, "pack", o)
  /\ UNCHANGED << tmp, cli >>
  /\ LET v == PackValidate(fs, o)
         k == LoadKey(fs, o)
     IN  IF v # ""
         THEN /\ Finish(p, v)
              /\ key' = [key EXCEPT ![p] = NoKey]
         ELSE IF k = NoKey
         THEN /\ Finish(p, "InvalidKey")
              /\ key' = [key EXCEPT ![p] = NoKey]
         ELSE /\ key' = [key EXCEPT ![p] = k]
              /\ pc' = [pc EXCEPT ![p] = "stat"]
              /\ err' = [err EXCEPT ![p] = ""]

\* The output file opened for writing as soon as the options are valid.
PackBeginOpensOutput(p) ==
  \E o \in PackOptions :
    /\ PackBeginWith(p, o)
    /\ fs' = IF PackValidate(fs, o) = "" THEN [fs EXCEPT ![o.outFile] = File(<< >>)] ELSE fs

PackBegin(p) ==
  \E o \in PackOptions :
    /\ PackBeginWith(p, o)
    /\ UNCHANGED fs

\* Lines 123-136: where pack goes once stat has answered.
AfterStat(type) ==
  IF type = "dir" THEN "mkdtemp"
  ELSE IF type = "file" THEN "readFile"
  ELSE "failed"

\* await fs.promises.stat(options.sourcePath)
PackStat(p) ==
  /\ pc[p] = "stat"
  /\ UNCHANGED << fs, tmp, op, opts, key, zip, signature, caught, zipSt, hist, cli >>
  /\ LET next == AfterStat(fs[opts[p].sourcePath].type)
     IN  IF next = "failed"
         THEN Finish(p, "UnsupportedSourceType")
         ELSE /\ pc' = [pc EXCEPT ![p] = next]
              /\ UNCHANGED err

\* await fs.promises.mkdtemp(...), then createZip is called: the output stream
\* and the archive are created and the promise is pending (lines 124-127,
\* 165-182).
PackMkdtemp(p) ==
  /\ pc[p] = "mkdtemp"
  /\ tmp' = [tmp EXCEPT ![p] = [exists |-> TRUE, file |-> NoFile]]
  /\ hist' = [hist EXCEPT ![p].tmpCreated = TRUE]
  /\ zipSt' = [zipSt EXCEPT ![p] = [ok |-> TRUE, promise |-> "pending",
                                    output |-> "open", archive |-> "running"]]
  /\ pc' = [pc EXCEPT ![p] = "createZip"]
  /\ UNCHANGED << fs, op, opts, err, key, zip, signature, caught, cli >>

\* Lines 138-143: the signature over zip, made with privateKey; then the
\* container is assembled and writeFile is started.
SignAndAssemble(p, data) ==
  IF CanSign(key[p])
  THEN /\ signature' = [signature EXCEPT ![p] = Sign(key[p], data)]
       /\ hist' = [hist EXCEPT ![p].signed = Buf(data)]
       /\ pc' = [pc EXCEPT ![p] = "write"]
       /\ UNCHANGED err
  ELSE /\ Finish(p, "SignError")
       /\ UNCHANGED << signature, hist >>

\* The scratch directory removed on the success path only.
OnStagingErrorNoFinally(p) == "failed"

\* Where the rejection of createZip or of readFile (lines 127-128) goes: the
\* finally block of line 129.
OnStagingError(p) == "rm"

\* archive.on('error'): ok = false; reject(err).  The await of line 127 throws.
ArchiveError(p) ==
  /\ pc[p] = "createZip"
  /\ zipSt[p].archive = "running"
  /\ zipSt[p].output = "open"
  /\ zipSt' = [zipSt EXCEPT ![p].ok = FALSE, ![p].promise = "rejected",
                            ![p].archive = "errored"]
  /\ tmp' = [tmp EXCEPT ![p].file = File(<< 80 >>)]
  /\ IF OnStagingError(p) = "rm"
     THEN /\ caught' = [caught EXCEPT ![p] = "PackagingError"]
          /\ pc' = [pc EXCEPT ![p] = "rm"]
          /\ UNCHANGED err
     ELSE /\ Finish(p, "PackagingError")
          /\ UNCHANGED caught
  /\ UNCHANGED << fs, op, opts, key, zip, signature, hist, cli >>

\* The output stream emits 'error' (the staged file cannot be opened or
\* written).  createZip registers no listener for it: ok stays true and the
\* promise stays pending.  Whether the stream goes on to emit 'close' depends
\* on the runtime: it does ("errored") or the unhandled event ends the
\* stream's life without one ("dead").
OutputError(p) ==
  /\ pc[p] = "createZip"
  /\ zipSt[p].output = "open"
  /\ \E f \in {NoFile, File(<< 80 >>)}, o \in {"errored", "dead"} :
       /\ tmp' = [tmp EXCEPT ![p].file = f]
       /\ zipSt' = [zipSt EXCEPT ![p] = [zipSt[p] EXCEPT !.output = o]]
  /\ UNCHANGED << fs, pc, op, opts, err, key, zip, signature, caught, hist, cli >>

\* output.on('close'): if (ok) resolve().  After a finished archive the staged
\* file holds the whole zip; the await of line 127 returns and readFile starts.
\* A close that comes after the archive's error finds ok false and does nothing.
OutputClose(p) ==
  /\ zipSt[p].output \in {"open", "errored"}
  /\ zipSt[p].promise \in {"pending", "rejected"}
  /\ zipSt' = [zipSt EXCEPT ![p].output = "closed",
                            ![p].archive = IF @ = "running" THEN "done" ELSE @,
                            ![p].promise = IF zipSt[p].ok THEN "resolved" ELSE @]
  /\ IF zipSt[p].ok
     THEN /\ tmp' = [tmp EXCEPT ![p].file =
                       IF zipSt[p].output = "open"
                       THEN File(ZipOf(fs[opts[p].sourcePath].data)) ELSE @]
          /\ pc' = [pc EXCEPT ![p] = "readZip"]
     ELSE UNCHANGED << tmp, pc >>
  /\ UNCHANGED << fs, op, opts, err, key, zip, signature, caught, hist, cli >>

\* zip = await fs.promises.readFile(file), line 128; then the finally block.
PackReadZip(p) ==
  /\ pc[p] = "readZip"
  /\ \/ /\ tmp[p].file.type = "file"
        /\ zip' = [zip EXCEPT ![p] = Buf(tmp[p].file.data)]
        /\ pc' = [pc EXCEPT ![p] = "rm"]
        /\ UNCHANGED << caught, err >>
     \/ /\ UNCHANGED zip
        /\ IF OnStagingError(p) = "rm"
           THEN /\ caught' = [caught EXCEPT ![p] = "SourceReadError"]
                /\ pc' = [pc EXCEPT ![p] = "rm"]
                /\ UNCHANGED err
           ELSE /\ Finish(p, "SourceReadError")
                /\ UNCHANGED caught
  /\ UNCHANGED << fs, tmp, op, opts, key, signature, zipSt, hist, cli >>

\* finally { await fs.promises.rm(tmp, { recursive: true }) }: the error in
\* flight is rethrown, or pack goes on to sign.
PackRm(p) ==
  /\ pc[p] = "rm"
  /\ tmp' = [tmp EXCEPT ![p] = NoTmp]
  /\ IF caught[p] # ""
     THEN /\ Finish(p, caught[p])
          /\ UNCHANGED << signature, hist >>
     ELSE SignAndAssemble(p, zip[p].data)
  /\ UNCHANGED << fs, op, opts, key, zip, caught, zipSt, cli >>

\* zip = await fs.promises.readFile(options.sourcePath), line 133.
PackReadFile(p) ==
  /\ pc[p] = "readFile"
  /\ \/ /\ fs[opts[p].sourcePath].type = "file"
        /\ zip' = [zip EXCEPT ![p] = Buf(fs[opts[p].sourcePath].data)]
        /\ SignAndAssemble(p, fs[opts[p].sourcePath].data)
     \/ /\ Finish(p, "SourceReadError")
        /\ UNCHANGED << zip, signature, hist >>
  /\ UNCHANGED << fs, tmp, op, opts, key, caught, zipSt, cli >>

\* The payload derived again from the source path at assembly.
AssemblePayloadReread(p) == fs[opts[p].sourcePath].data

\* The payload section of the container: the zip buffer.
AssemblePayload(p) == zip[p].data

\* The buffer of lines 146-156, built from publicKeyDer, signature and zip.
PackBuffer(p) == Assemble(PublicKeyDer(key[p]), signature[p], AssemblePayload(p))

\* await fs.promises.writeFile(options.outFile, buffer), line 159.
PackWrite(p) ==
  /\ pc[p] = "write"
  /\ \E w \in WriteFile(fs, opts[p].outFile, PackBuffer(p)) :
       /\ fs' = w.files
       /\ Finish(p, IF w.ok THEN "" ELSE "WriteError")
  /\ UNCHANGED << tmp, op, opts, key, zip, signature, caught, zipSt, hist, cli >>

\* ------------------------------------------------------ the command line

PathChar == {"a", "/", ".", "z", "i", "p"}
CliSources == SeqsUpTo(PathChar, MaxPathLen) \ {<< >>}

\* The -o option: undefined, or a destination.
CliOuts == {[given |-> FALSE, path |-> << >>],
            [given |-> TRUE, path |-> << "o" >>],
            [given |-> TRUE, path |-> << "a", "/", "o" >>]}

\* src.endsWith(suffix)
EndsWith(s, suffix) ==
  /\ Len(s) >= Len(suffix)
  /\ Slice(s, Len(s) - Len(suffix), Len(s)) = suffix

DotZip == << ".", "z", "i", "p" >>
DotExt == << ".", "e", "x", "t" >>

\* getOutFile(out, src)
getOutFile(out, src) ==
  IF out.given THEN out.path
  ELSE IF EndsWith(src, DotZip) /\ Len(src) > 4
  THEN Slice(src, 0, Len(src) - 4) \o DotExt
  ELSE src \o DotExt

\* The handler of the pack command, run once for the process's command line:
\* the options object it calls pack with (pack itself is PackBegin and the
\* steps after it).
CliPack ==
  /\ cli = NoCli
  /\ \E src \in CliSources, out \in CliOuts :
       cli' = [src |-> src, out |-> out.path, outGiven |-> out.given,
               outFile |-> getOutFile(out, src)]
  /\ UNCHANGED << fs, tmp, pc, op, opts, err, key, zip, signature, caught, zipSt, hist >>

\* ------------------------------------------------------------ specifications

Step(p) ==
  \/ KeygenGenerated(p)
  \/ KeygenWrite(p)
  \/ PackStat(p)
  \/ PackMkdtemp(p)
  \/ ArchiveError(p)
  \/ OutputError(p)
  \/ OutputClose(p)
  \/ PackReadZip(p)
  \/ PackRm(p)
  \/ PackReadFile(p)
  \/ PackWrite(p)

\* One call at a time: the next begins when the last has returned or failed.
StartSeq(p) == p = 1 /\ pc[p] \in Rest

Next ==
  \E p \in Procs :
    \/ StartSeq(p) /\ KeygenSync(p)
    \/ StartSeq(p) /\ KeygenBegin(p)
    \/ StartSeq(p) /\ PackBegin(p)
    \/ Step(p)

Spec == Init /\ [][Next]_vars

\* Two calls in one process: each begins at any time, and their steps
\* interleave at the awaits.
InitConc ==
  /\ fs \in {f \in InitFiles :
               /\ f[KeyPath] \in {NoFile, File(PemEncode(ForeignRsaKey))}
               /\ f[SrcPath] \in {File(<< 7 >>), Dir(<< 7 >>)}
               /\ f[OutPath] = NoFile}
  /\ InitProcs
  /\ cli = NoCli

StartConc(p) == pc[p] = "idle"

NextConc ==
  \E p \in Procs :
    \/ StartConc(p) /\ KeygenSync(p)
    \/ StartConc(p) /\ KeygenBegin(p)
    \/ StartConc(p) /\ PackBegin(p)
    \/ Step(p)

SpecConc == InitConc /\ [][NextConc]_vars

\* The pack command of the command line.
InitCli ==
  /\ fs = [q \in Paths |-> NoFile]
  /\ InitProcs
  /\ cli = NoCli

NextCli == CliPack

SpecCli == InitCli /\ [][NextCli]_vars

\* ------------------------------------------------------------------ claims

Packed(p) == op[p] = "pack" /\ pc[p] = "done"
PackFailed(p) == op[p] = "pack" /\ pc[p] = "failed"

\* The bytes of the output file of invocation p.
Written(p) == fs[opts[p].outFile].data

\* The 32-bit little-endian unsigned integer stored at offset off.
ReadUint32LE(buf, off) ==
  buf[off + 1] + 256 * buf[off + 2] + 65536 * buf[off + 3] + 16777216 * buf[off + 4]

IsPrefix(s, t) == Len(s) <= Len(t) /\ \A i \in 1 .. Len(s) : s[i] = t[i]

\* A reader of the container format: the two length fields, then the three
\* sections cut at the offsets they give, the payload being the remainder.
Parse(c) ==
  LET publicKeyLength == ReadUint32LE(c, 8)
      signatureLength == ReadUint32LE(c, 12)
  IN  [publicKey |-> Slice(c, 16, 16 + publicKeyLength),
       signature |-> Slice(c, 16 + publicKeyLength, 16 + publicKeyLength + signatureLength),
       payload   |-> Slice(c, 16 + publicKeyLength + signatureLength, Len(c))]

\* Signature verification with a public key alone.
Verify(publicKeyDer, sig, data) ==
  \E k \in AllKeys : CanSign(k) /\ PublicKeyDer(k) = publicKeyDer /\ Sign(k, data) = sig

\* C1: after every successful pack the written container is
\* 16 + len(publicKey) + len(signature) + len(payload) bytes long, and the
\* little-endian 32-bit fields at offsets 8 and 12 are len(publicKey) and
\* len(signature).
C1_ContainerLengths ==
  \A p \in Procs :
    Packed(p) =>
      /\ fs[opts[p].outFile].type = "file"
      /\ Len(Written(p)) =
           16 + Len(PublicKeyDer(key[p])) + Len(signature[p]) + Len(zip[p].data)
      /\ ReadUint32LE(Written(p), 8) = Len(PublicKeyDer(key[p]))
      /\ ReadUint32LE(Written(p), 12) = Len(signature[p])

\* A pack with a generated 2048-bit key: both length fields exceed one byte.
C1_Witness ==
  \E p \in Procs :
    /\ Packed(p)
    /\ key[p] \in GeneratedKeys
    /\ Len(PublicKeyDer(key[p])) > 255
    /\ Len(signature[p]) > 255
    /\ Len(zip[p].data) > 0

\* C2: parsing the container a successful pack wrote gives back the public
\* key, the signature and the payload byte for byte, behind an intact magic
\* and version.
C2_RoundTrip ==
  \A p \in Procs :
    Packed(p) =>
      /\ Parse(Written(p)) = [publicKey |-> PublicKeyDer(key[p]),
                              signature |-> signature[p],
                              payload   |-> zip[p].data]
      /\ Slice(Written(p), 0, 4) = Magic
      /\ Slice(Written(p), 4, 8) = Version

\* A pack of a directory with the short foreign key, and one of an empty file.
C2_Witness ==
  \E p \in Procs :
    /\ Packed(p)
    /\ \/ key[p] = ForeignRsaKey /\ hist[p].fs0[opts[p].sourcePath].type = "dir"
       \/ zip[p].data = << >>

\* C3: in every successful pack the payload section of the container is the
\* byte sequence that was signed, which for a source file is the file's
\* content; the signature section is the signature of that payload made with
\* the key loaded from privateKeyFile, the public-key section is that key's
\* public key, and the public key verifies the signature over the payload.
C3_SignedPayloadWritten ==
  \A p \in Procs :
    Packed(p) =>
      LET c == Parse(Written(p))
          loaded == PemDecode(hist[p].fs0[opts[p].privateKeyFile].data)
      IN  /\ hist[p].signed.set
          /\ c.payload = hist[p].signed.data
          /\ hist[p].fs0[opts[p].sourcePath].type = "file"
               => c.payload = hist[p].fs0[opts[p].sourcePath].data
          /\ loaded # NoKey
          /\ c.signature = Sign(loaded, c.payload)
          /\ c.publicKey = PublicKeyDer(loaded)
          /\ Verify(c.publicKey, c.signature, c.payload)

\* A pack of a source file of the greatest length with a key keygen wrote.
C3_Witness ==
  \E p \in Procs :
    /\ Packed(p)
    /\ hist[p].fs0[opts[p].sourcePath].type = "file"
    /\ Len(hist[p].signed.data) = MaxPayloadLen
    /\ PemDecode(hist[p].fs0[opts[p].privateKeyFile].data) \in GeneratedKeys

IsKeygen(p) == op[p] \in {"keygen", "keygenSync"}

\* C4: a keygen or keygenSync call without force on a path that exists fails
\* with the already-exists error, generates no key and leaves the file as it
\* was.
C4_KeygenAlreadyExists ==
  \A p \in Procs :
    (/\ IsKeygen(p)
     /\ ~Force(opts[p])
     /\ Exists(hist[p].fs0, opts[p].privateKeyFile))
    => /\ pc[p] = "failed"
       /\ err[p] = "AlreadyExists"
       /\ key[p] = NoKey
       /\ fs[opts[p].privateKeyFile] = hist[p].fs0[opts[p].privateKeyFile]

\* The second keygen: the file holds a key an earlier keygen wrote.
C4_Witness ==
  \E p \in Procs :
    /\ op[p] = "keygen"
    /\ ~Force(opts[p])
    /\ err[p] = "AlreadyExists"
    /\ PemDecode(fs[opts[p].privateKeyFile].data) \in GeneratedKeys

\* C5: a pack whose key file or source path is missing, or whose output path
\* exists without force, fails at once with the validation error: no key is
\* loaded, no scratch directory made, nothing read or signed, no file changed.
C5_FailFastValidation ==
  \A p \in Procs :
    (/\ op[p] = "pack"
     /\ \/ ~Exists(hist[p].fs0, opts[p].privateKeyFile)
        \/ ~Exists(hist[p].fs0, opts[p].sourcePath)
        \/ Exists(hist[p].fs0, opts[p].outFile) /\ ~Force(opts[p]))
    => /\ pc[p] = "failed"
       /\ err[p] \in {"KeyNotFound", "SourceNotFound", "AlreadyExists"}
       /\ ~Exists(hist[p].fs0, opts[p].sourcePath) => err[p] # "AlreadyExists"
       /\ key[p] = NoKey
       /\ ~hist[p].tmpCreated /\ ~tmp[p].exists
       /\ ~zip[p].set /\ ~hist[p].signed.set
       /\ fs = hist[p].fs0

\* A pack of a source path that does not exist, with the key file present.
C5_Witness ==
  \E p \in Procs :
    /\ PackFailed(p)
    /\ err[p] = "SourceNotFound"
    /\ Exists(fs, opts[p].privateKeyFile)
    /\ ~Exists(fs, opts[p].outFile)

\* C6 as claimed: after a failed pack the output file is absent or exactly
\* what it was before the call, whichever step failed.
C6_NoPartialOutput ==
  \A p \in Procs :
    PackFailed(p) => fs[opts[p].outFile] = hist[p].fs0[opts[p].outFile]

\* C6 amended: a pack that failed before its final write left the output file
\* as it was; one that failed in the final write left it as it was or holding
\* a strict prefix of the container.
C6_NoPartialOutputBeforeWrite ==
  \A p \in Procs :
    PackFailed(p) =>
      \/ fs[opts[p].outFile] = hist[p].fs0[opts[p].outFile]
      \/ /\ err[p] = "WriteError"
         /\ fs[opts[p].outFile].type = "file"
         /\ Len(Written(p)) < Len(PackBuffer(p))
         /\ IsPrefix(Written(p), PackBuffer(p))

\* A pack that failed at signing while an output file existed and force was set.
C6_Witness ==
  \E p \in Procs :
    /\ PackFailed(p)
    /\ err[p] \in {"SignError", "InvalidKey", "PackagingError"}
    /\ Force(opts[p])
    /\ Exists(fs, opts[p].outFile)

RECURSIVE StripSlashes(_)
StripSlashes(s) ==
  IF Len(s) > 1 /\ s[Len(s)] = "/" THEN StripSlashes(SubSeq(s, 1, Len(s) - 1)) ELSE s

LastSlash(s) == IF \E i \in 1 .. Len(s) : s[i] = "/"
                THEN CHOOSE i \in 1 .. Len(s) :
                       s[i] = "/" /\ \A j \in (i + 1) .. Len(s) : s[j] # "/"
                ELSE 0

Dirname(s) ==
  LET t == StripSlashes(s)
      i == LastSlash(t)
  IN  IF i = 0 THEN << "." >>
      ELSE IF i = 1 THEN << "/" >>
      ELSE StripSlashes(SubSeq(t, 1, i - 1))

\* The last component of a path (trailing separators dropped).
Basename(s) ==
  LET t == StripSlashes(s)
  IN  IF t = << "/" >> THEN << >> ELSE SubSeq(t, LastSlash(t) + 1, Len(t))

\* A name without its .zip extension.
Stem(name) == IF EndsWith(name, DotZip) THEN SubSeq(name, 1, Len(name) - 4) ELSE name

\* C8: without a destination the output file is in the parent directory of
\* the source path and is named after the source's basename (with or without
\* its .zip extension) followed by .ext; a destination given is used as is.
C8_DefaultOutFile ==
  cli # NoCli =>
    IF cli.outGiven THEN cli.outFile = cli.out
    ELSE /\ Dirname(cli.outFile) = Dirname(cli.src)
         /\ Basename(cli.outFile) \in {Basename(cli.src) \o DotExt,
                                       Stem(Basename(cli.src)) \o DotExt}

\* C9: a failure of zip staging is surfaced: once the output stream has
\* emitted 'error' the promise of createZip is rejected (it is neither left
\* pending nor resolved).
C9_StagingFailureSurfaced ==
  \A p \in Procs :
    zipSt[p].output \in {"errored", "dead"} => zipSt[p].promise = "rejected"

\* The file an invocation writes.
Target(p) == IF op[p] = "pack" THEN opts[p].outFile ELSE opts[p].privateKeyFile

\* C10: of two interleaved keygen calls, or two interleaved pack calls,
\* without force on the same path at most one writes the file.
C10_AtMostOneWriter ==
  \A p, q \in Procs :
    (/\ p # q
     /\ op[p] = op[q] /\ op[p] \in {"keygen", "pack"}
     /\ pc[p] = "done" /\ pc[q] = "done"
     /\ ~Force(opts[p]) /\ ~Force(opts[q]))
    => Target(p) # Target(q)

====
